---- MODULE Spec2Model ----
(***************************************************************************)
(* A model of gini() of src/gini.py: the Gini coefficient of a weighted,   *)
(* ranked dataset by way of normalised cumulative sums.                    *)
(*                                                                         *)
(* Numbers are exact: a cell of a frame is a rational, NaN or a signed     *)
(* infinity, so that a division by a zero total does what float division   *)
(* of a column does (NaN, inf) and an equality of two coefficients is an   *)
(* equality in exact arithmetic.  Rounding of float64 is not modelled.     *)
(***************************************************************************)
EXTENDS Integers, Sequences, FiniteSets, TLC

\* Largest row count of a dataset.
MaxRows == 3

\* src/gini.py:96, the row count above which the plot is subsampled.
PlotThreshold == 1000

None == "None"

-----------------------------------------------------------------------------
(* Cells: <<"fin", n, d>> is n/d in lowest terms with d > 0; <<"nan",0,0>>; *)
(* <<"inf", s, 0>> is s * infinity.                                        *)

Abs(x) == IF x < 0 THEN -x ELSE x

Sgn(x) == IF x < 0 THEN -1 ELSE IF x = 0 THEN 0 ELSE 1

RECURSIVE GCD(_, _)
GCD(a, b) == IF b = 0 THEN a ELSE GCD(b, a % b)

NaN == <<"nan", 0, 0>>

Inf(s) == <<"inf", s, 0>>

Fin(n, d) ==
    LET nn == Sgn(d) * n
        dd == Abs(d)
        g  == GCD(Abs(nn), dd)
    IN  <<"fin", Sgn(nn) * (Abs(nn) \div g), dd \div g>>

Num(i) == <<"fin", i, 1>>

IsFin(x) == x[1] = "fin"
IsNaN(x) == x[1] = "nan"
IsInf(x) == x[1] = "inf"

\* The sign of a cell that is not NaN.
SignOf(x) == IF IsInf(x) THEN x[2] ELSE Sgn(x[2])

Neg(x) ==
    IF IsFin(x) THEN <<"fin", -x[2], x[3]>>
    ELSE IF IsInf(x) THEN Inf(-x[2])
    ELSE NaN

Add(x, y) ==
    IF IsNaN(x) \/ IsNaN(y) THEN NaN
    ELSE IF IsInf(x) /\ IsInf(y) THEN (IF x[2] = y[2] THEN x ELSE NaN)
    ELSE IF IsInf(x) THEN x
    ELSE IF IsInf(y) THEN y
    ELSE Fin(x[2] * y[3] + y[2] * x[3], x[3] * y[3])

Sub(x, y) == Add(x, Neg(y))

Mul(x, y) ==
    IF IsNaN(x) \/ IsNaN(y) THEN NaN
    ELSE IF IsInf(x) \/ IsInf(y)
         THEN (IF SignOf(x) * SignOf(y) = 0 THEN NaN
               ELSE Inf(SignOf(x) * SignOf(y)))
    ELSE Fin(x[2] * y[2], x[3] * y[3])

\* True division of floats: x/0 is NaN for x = 0 and a signed infinity
\* otherwise, and nothing is raised.
Div(x, y) ==
    IF IsNaN(x) \/ IsNaN(y) THEN NaN
    ELSE IF IsInf(x) THEN (IF IsInf(y) THEN NaN
                           ELSE Inf(x[2] * (IF SignOf(y) < 0 THEN -1 ELSE 1)))
    ELSE IF IsInf(y) THEN Num(0)
    ELSE IF y[2] = 0 THEN (IF x[2] = 0 THEN NaN ELSE Inf(Sgn(x[2])))
    ELSE Fin(x[2] * y[3], x[3] * y[2])

\* x <= y for finite cells.
Leq(x, y) == IsFin(x) /\ IsFin(y) /\ x[2] * y[3] <= y[2] * x[3]

-----------------------------------------------------------------------------
(* Columns are sequences of cells, frames are functions from column names  *)
(* to columns of one length.                                               *)

\* Series.sum(): the sum of the cells that are not NaN (skipna is True by
\* default), 0 for none.  The H2OFrame is given the same column operations.
RECURSIVE SumFrom(_, _)
SumFrom(col, i) ==
    IF i > Len(col) THEN Num(0)
    ELSE IF IsNaN(col[i]) THEN SumFrom(col, i + 1)
    ELSE Add(col[i], SumFrom(col, i + 1))

ColSum(col) == SumFrom(col, 1)

\* Series.cumsum(): the running sum up to and including each row; a NaN cell
\* stays NaN and is left out of the running sum.
RECURSIVE RunningSum(_, _, _)
RunningSum(col, i, acc) ==
    IF i > Len(col) THEN <<>>
    ELSE IF IsNaN(col[i]) THEN <<NaN>> \o RunningSum(col, i + 1, acc)
    ELSE <<Add(acc, col[i])>> \o RunningSum(col, i + 1, Add(acc, col[i]))

ColCumSum(col) == RunningSum(col, 1, Num(0))

\* Series / scalar, row by row.
RECURSIVE DivFrom(_, _, _)
DivFrom(col, i, x) ==
    IF i > Len(col) THEN <<>>
    ELSE <<Div(col[i], x)>> \o DivFrom(col, i + 1, x)

ColDiv(col, x) == DivFrom(col, 1, x)

\* Series - Series, row by row.
RECURSIVE SubFrom(_, _, _)
SubFrom(a, b, i) ==
    IF i > Len(a) THEN <<>>
    ELSE <<Sub(a[i], b[i])>> \o SubFrom(a, b, i + 1)

ColSub(a, b) == SubFrom(a, b, 1)

\* Series * Series, row by row.
RECURSIVE MulFrom(_, _, _)
MulFrom(a, b, i) ==
    IF i > Len(a) THEN <<>>
    ELSE <<Mul(a[i], b[i])>> \o MulFrom(a, b, i + 1)

ColMul(a, b) == MulFrom(a, b, 1)

\* frame[name] = col: adds the column or overwrites the one of that name.
SetCol(frame, name, col) == (name :> col) @@ frame

NoFrame == [c \in {} |-> <<>>]

NoCell == <<"none", 0, 0>>

\* The row count of a dataset (all columns have one length).
NRows(d) == Len(d[CHOOSE c \in DOMAIN d : TRUE])

-----------------------------------------------------------------------------
(* The steps of gini().                                                    *)

\* ranking defaults to target.
LocalRanking(target, ranking) == IF ranking = None THEN target ELSE ranking

\* weight defaults to a column named "weight".
LocalWeight(weight) == IF weight = None THEN "weight" ELSE weight

\* The orders of the rows in S; Perms(n) the orders of rows 1..n.
RECURSIVE PermsOf(_)
PermsOf(S) ==
    IF S = {} THEN {<<>>}
    ELSE UNION {{<<x>> \o p : p \in PermsOf(S \ {x})} : x \in S}

Perms(n) == PermsOf(1..n)

Monotone(col, o, ascending) ==
    \A i \in 1..(Len(o) - 1) :
        IF ascending THEN col[o[i]] <= col[o[i + 1]]
        ELSE col[o[i]] >= col[o[i + 1]]

\* A sort that leaves the rows as they came.
SortOrdersUnsorted(col, ascending) == {[i \in 1..Len(col) |-> i]}

\* sort_values(by=ranking, ascending=ascending) with the default kind
\* ("quicksort", which is not stable) and H2OFrame.sort: the rows in an order
\* monotone in the rank column; the order of rows of equal rank is whatever
\* the sort leaves.
SortOrders(col, ascending) ==
    {o \in Perms(Len(col)) : Monotone(col, o, ascending)}

\* A sort in place (inplace=True): the caller's rows in the sorted order.
DataSortedInPlace(d, o) ==
    [c \in DOMAIN d |-> [i \in 1..Len(o) |-> d[c][o[i]]]]

\* sort_values returns a new frame (inplace=False): the caller's frame is
\* what it was.
DataAfterSort(d, o) == d

\* ...[[target]] or [[target, weight]] of the rows in order o, and the
\* column of 1s under the name "weight" when no weight was given.
SortedData(d, o, target, weight) ==
    LET col(c) == [i \in 1..Len(o) |-> Num(d[c][o[i]])]
    IN  IF weight = None
        THEN SetCol(SetCol(NoFrame, target, col(target)),
                    LocalWeight(weight), [i \in 1..Len(o) |-> Num(1)])
        ELSE SetCol(SetCol(NoFrame, target, col(target)),
                    weight, col(weight))

\* A rescaling that divides both columns by the weight total.
RescaleByWeightSum(sd, target, weight) ==
    LET s1 == SetCol(sd, target, ColDiv(sd[target], ColSum(sd[weight])))
    IN  SetCol(s1, weight, ColDiv(s1[weight], ColSum(s1[weight])))

\* Rescale so sums are 1.
Rescale(sd, target, weight) ==
    LET s1 == SetCol(sd, target,
                     ColDiv(sd[target], ColSum(sd[target])))
    IN  SetCol(s1, weight, ColDiv(s1[weight], ColSum(s1[weight])))

\* Compute running totals.
RunningTotals(sd, target, weight) ==
    LET s1 == SetCol(sd, "cumul_total", ColCumSum(sd[target]))
    IN  SetCol(s1, "cumul_weight", ColCumSum(s1[weight]))

\* The lift with the two running totals exchanged.
LiftSwapped(sd, weight) ==
    SetCol(sd, "lift",
           ColMul(ColSub(sd["cumul_total"], sd["cumul_weight"]), sd[weight]))

\* (cumul_weight - cumul_total) * weight, row by row.
Lift(sd, weight) ==
    SetCol(sd, "lift",
           ColMul(ColSub(sd["cumul_weight"], sd["cumul_total"]), sd[weight]))

\* A coefficient without the change of sign for a descending sort.
GiniIndexNoFlip(sd, ascending) == Mul(Num(2), ColSum(sd["lift"]))

\* Twice the sum of the lift, with the sign changed for a descending sort.
GiniIndex(sd, ascending) ==
    IF ascending
    THEN Mul(Num(2), ColSum(sd["lift"]))
    ELSE Mul(Num(-2), ColSum(sd["lift"]))

Stride(n) == IF n > PlotThreshold THEN n \div PlotThreshold ELSE 1

\* sorted_data[["cumul_total","cumul_weight"]].iloc[::stride]: rows 0,
\* stride, 2*stride, ...
Subsample(sd, stride) ==
    LET n == Len(sd["cumul_total"])
        k == (n + stride - 1) \div stride
    IN  [c \in {"cumul_total", "cumul_weight"} |->
            [i \in 1..k |-> sd[c][(i - 1) * stride + 1]]]

\* The whole computation from a sorted order on, as one value.
GiniOf(d, o, dtype, target, weight, ascending) ==
    LET w  == LocalWeight(weight)
        s0 == SortedData(d, o, target, weight)
        s1 == Rescale(s0, target, w)
        s2 == RunningTotals(s1, target, w)
        s3 == Lift(s2, w)
    IN  GiniIndex(s3, ascending)

-----------------------------------------------------------------------------
(* One call of gini(data, target, ranking, weight, plot, ascending).       *)

VARIABLES
    data,         \* the caller's dataset: column name -> sequence of integers
    dtype,        \* what str(type(data)) names: "pandas", "H2OFrame", "other"
    target,
    ranking,      \* the local: None until the default is resolved
    weight,       \* the local: None until the default is resolved
    plot,
    ascending,
    call,         \* the ranking and weight arguments as the caller gave them
    pc,
    order,        \* the index of the sorted frame: order[i] is the input row
                  \* that is row i of sorted_data
    sorted_data,
    gini_index,
    plotted,      \* what plt.plot was given
    result        \* the value returned

vars == <<data, dtype, target, ranking, weight, plot, ascending, call, pc,
          order, sorted_data, gini_index, plotted, result>>

\* Datasets of n rows with the given columns, each column over its own values.
Frames1(n, c1, V1) ==
    {[c \in {c1} |-> a] : a \in [1..n -> V1]}

Frames2(n, c1, V1, c2, V2) ==
    {[c \in {c1, c2} |-> IF c = c1 THEN a ELSE b] :
        a \in [1..n -> V1], b \in [1..n -> V2]}

Frames3(n, c1, V1, c2, V2, c3, V3) ==
    {[c \in {c1, c2, c3} |-> IF c = c1 THEN a ELSE IF c = c2 THEN b ELSE e] :
        a \in [1..n -> V1], b \in [1..n -> V2], e \in [1..n -> V3]}

Start(d, ty, tg, rk, wt, pl, asc) ==
    /\ data = d
    /\ dtype = ty
    /\ target = tg
    /\ ranking = rk
    /\ weight = wt
    /\ plot = pl
    /\ ascending = asc
    /\ call = [ranking |-> rk, weight |-> wt]
    /\ pc = "start"
    /\ order = <<>>
    /\ sorted_data = NoFrame
    /\ gini_index = NoCell
    /\ plotted = NoFrame
    /\ result = NoCell

\* gini(data, "loss"): one column, either frame type or neither, plot on or off.
InitTargetOnly ==
    \E n \in 0..MaxRows :
    \E d \in Frames1(n, "loss", {-1, 0, 1, 2}) :
    \E ty \in {"pandas", "H2OFrame", "other"}, pl \in BOOLEAN, asc \in BOOLEAN :
        Start(d, ty, "loss", None, None, pl, asc)

\* gini(data, "loss", "pred"): a ranking column, no weight.
InitRanked ==
    \E n \in 0..MaxRows :
    \E d \in Frames2(n, "loss", {1, 2}, "pred", {1, 2, 3}) :
    \E asc \in BOOLEAN :
        Start(d, "pandas", "loss", "pred", None, FALSE, asc)

\* gini(data, "loss", weight="expo"): ranked by the outcome, weighted.
InitWeighted ==
    \E n \in 0..MaxRows :
    \E d \in Frames2(n, "loss", {1, 2}, "expo", {0, 1, 3}) :
    \E asc \in BOOLEAN :
        Start(d, "pandas", "loss", None, "expo", FALSE, asc)

\* Pairwise distinct rank values 1..n in the input: ascending, descending,
\* or ascending from the second row on with the largest rank first.
RankColumns(n) ==
    {[i \in 1..n |-> i], [i \in 1..n |-> n + 1 - i],
     [i \in 1..n |-> IF i = 1 THEN n ELSE i - 1]}

\* gini(data, "loss", "pred", "expo") with pairwise distinct rank values.
InitFull ==
    \E n \in 0..MaxRows :
    \E r \in RankColumns(n) :
    \E d \in Frames2(n, "loss", {1, 2}, "expo", {1, 3}) :
    \E asc \in BOOLEAN :
        Start(SetCol(d, "pred", r), "pandas", "loss", "pred", "expo", FALSE,
              asc)

\* gini(data, "loss", "pred", "expo") with tied rank values.
InitTied ==
    \E n \in 0..MaxRows :
    \E d \in Frames3(n, "loss", {1, 2}, "pred", {1, 2}, "expo", {1, 3}) :
    \E asc \in BOOLEAN :
        Start(d, "pandas", "loss", "pred", "expo", FALSE, asc)

\* A dataset with a column named "weight": as the target, as the ranking,
\* unused, or as the weight.
InitNamedWeight ==
    \E n \in 0..MaxRows :
    \E d \in Frames2(n, "loss", {1, 2}, "weight", {1, 3}) :
    \E a \in {<<"weight", None, None>>, <<"weight", "loss", None>>,
              <<"loss", "weight", None>>, <<"loss", None, None>>,
              <<"loss", None, "weight">>} :
    \E asc \in BOOLEAN :
        Start(d, "pandas", a[1], a[2], a[3], FALSE, asc)

\* The scenario of the specification: outcome 10, 20, 30, 40.
InitScenario ==
    \E asc \in BOOLEAN :
        Start([c \in {"loss"} |-> <<10, 20, 30, 40>>], "pandas", "loss",
              None, None, FALSE, asc)

Init ==
    \/ InitTargetOnly
    \/ InitRanked
    \/ InitWeighted
    \/ InitFull
    \/ InitTied
    \/ InitNamedWeight
    \/ InitScenario

\* if "pandas" in str(type(data)): sort, project, default weight, reset_index.
SortPandas ==
    /\ pc = "start"
    /\ dtype = "pandas"
    /\ \E o \in SortOrders(data[LocalRanking(target, ranking)], ascending) :
        /\ order' = o
        /\ sorted_data' = SortedData(data, o, target, weight)
        /\ data' = DataAfterSort(data, o)
    /\ ranking' = LocalRanking(target, ranking)
    /\ weight' = LocalWeight(weight)
    /\ pc' = "rescale"
    /\ UNCHANGED <<dtype, target, plot, ascending, call, gini_index, plotted,
                   result>>

\* elif "H2OFrame" in str(type(data)): sort, project, default weight.
SortH2O ==
    /\ pc = "start"
    /\ dtype = "H2OFrame"
    /\ \E o \in SortOrders(data[LocalRanking(target, ranking)], ascending) :
        /\ order' = o
        /\ sorted_data' = SortedData(data, o, target, weight)
        /\ data' = DataAfterSort(data, o)
    /\ ranking' = LocalRanking(target, ranking)
    /\ weight' = LocalWeight(weight)
    /\ pc' = "rescale"
    /\ UNCHANGED <<dtype, target, plot, ascending, call, gini_index, plotted,
                   result>>

\* else: print the error and return -1.
InvalidType ==
    /\ pc = "start"
    /\ dtype \notin {"pandas", "H2OFrame"}
    /\ ranking' = LocalRanking(target, ranking)
    /\ result' = Num(-1)
    /\ pc' = "done"
    /\ UNCHANGED <<data, dtype, target, weight, plot, ascending, call, order,
                   sorted_data, gini_index, plotted>>

RescaleStep ==
    /\ pc = "rescale"
    /\ sorted_data' = Rescale(sorted_data, target, weight)
    /\ pc' = "cumul"
    /\ UNCHANGED <<data, dtype, target, ranking, weight, plot, ascending, call,
                   order, gini_index, plotted, result>>

RunningTotalsStep ==
    /\ pc = "cumul"
    /\ sorted_data' = RunningTotals(sorted_data, target, weight)
    /\ pc' = "lift"
    /\ UNCHANGED <<data, dtype, target, ranking, weight, plot, ascending, call,
                   order, gini_index, plotted, result>>

ComputeGini ==
    /\ pc = "lift"
    /\ LET sd == Lift(sorted_data, weight)
       IN  /\ sorted_data' = sd
           /\ gini_index' = GiniIndex(sd, ascending)
    /\ pc' = IF plot THEN "plot" ELSE "return"
    /\ UNCHANGED <<data, dtype, target, ranking, weight, plot, ascending, call,
                   order, plotted, result>>

PlotCurve ==
    /\ pc = "plot"
    /\ plotted' = Subsample(sorted_data, Stride(Len(sorted_data["lift"])))
    /\ pc' = "return"
    /\ UNCHANGED <<data, dtype, target, ranking, weight, plot, ascending, call,
                   order, sorted_data, gini_index, result>>

Return ==
    /\ pc = "return"
    /\ result' = gini_index
    /\ pc' = "done"
    /\ UNCHANGED <<data, dtype, target, ranking, weight, plot, ascending, call,
                   order, sorted_data, gini_index, plotted>>

Next ==
    \/ SortPandas
    \/ SortH2O
    \/ InvalidType
    \/ RescaleStep
    \/ RunningTotalsStep
    \/ ComputeGini
    \/ PlotCurve
    \/ Return

Spec == Init /\ [][Next]_vars

-----------------------------------------------------------------------------
(* What the properties speak of: the call as the caller made it.           *)

Done == pc = "done"

Valid == dtype \in {"pandas", "H2OFrame"}

N == NRows(data)

\* Row i of the input: its outcome, its rank, its weight (1 when no weight
\* column was given).
OutcomeOf(i) == data[target][i]

RankOf(i) == data[LocalRanking(target, call.ranking)][i]

WeightOf(i) == IF call.weight = None THEN 1 ELSE data[call.weight][i]

RECURSIVE IntSum(_, _)
IntSum(f, n) == IF n = 0 THEN 0 ELSE f[n] + IntSum(f, n - 1)

OutcomeTotal == IntSum([i \in 1..N |-> OutcomeOf(i)], N)

WeightTotal == IntSum([i \in 1..N |-> WeightOf(i)], N)

DistinctRanks == \A i, j \in 1..N : i # j => RankOf(i) # RankOf(j)

Identity(n) == [i \in 1..n |-> i]

Permuted(d, p) == [c \in DOMAIN d |-> [i \in 1..Len(p) |-> d[c][p[i]]]]

\* 2 * SUM_i (cumW_i - cumT_i) * w_i over the rows in order o, as one
\* fraction: with T and W the totals and CT_i, CW_i the integer prefix sums,
\* the term of row i is (CW_i * T - CT_i * W) * weight_i / (W * W * T).
TwiceArea(o) ==
    LET CT(i) == IntSum([j \in 1..i |-> OutcomeOf(o[j])], i)
        CW(i) == IntSum([j \in 1..i |-> WeightOf(o[j])], i)
        term  == [i \in 1..N |->
                    (CW(i) * OutcomeTotal - CT(i) * WeightTotal)
                       * WeightOf(o[i])]
    IN  Fin(2 * IntSum(term, N), WeightTotal * WeightTotal * OutcomeTotal)

\* C1: for non-zero outcome and weight totals and ascending=True the value
\* returned is 2 * SUM_i (cumW_i - cumT_i) * w_i over the sorted rows, and
\* outcome 10, 20, 30, 40 with no ranking and no weight gives 1/4.
C1_TwiceAreaReturned ==
    (Done /\ Valid /\ ascending /\ OutcomeTotal # 0 /\ WeightTotal # 0)
        => /\ result = TwiceArea(order)
           /\ (data = [c \in {"loss"} |-> <<10, 20, 30, 40>>]
                  => result = <<"fin", 1, 4>>)

\* C1, away from the column name "weight": the same statement for the calls
\* in which the default weight column does not take the target's name.
C1_TwiceAreaUnlessTargetNamedWeight ==
    (Done /\ Valid /\ ascending /\ OutcomeTotal # 0 /\ WeightTotal # 0
          /\ ~(call.weight = None /\ target = "weight"))
        => /\ result = TwiceArea(order)
           /\ (data = [c \in {"loss"} |-> <<10, 20, 30, 40>>]
                  => result = <<"fin", 1, 4>>)

\* C2 as stated: the call with `ascending` reversed returns minus the
\* coefficient (for some order the reversed sort may leave).
C2_ReversedIsNegated ==
    (Done /\ Valid /\ OutcomeTotal # 0 /\ WeightTotal # 0)
        => \E o \in SortOrders([i \in 1..N |-> RankOf(i)], ~ascending) :
              GiniOf(data, o, dtype, target, call.weight, ~ascending)
                 = Neg(result)

\* C2 as amended: with no weight column and pairwise distinct rank values,
\* the call with `ascending` reversed returns the same coefficient.
C2_ReversedIsEqualUnweighted ==
    (Done /\ Valid /\ OutcomeTotal # 0 /\ call.weight = None /\ DistinctRanks)
        => \A o \in SortOrders([i \in 1..N |-> RankOf(i)], ~ascending) :
              GiniOf(data, o, dtype, target, call.weight, ~ascending) = result

\* A descending, unweighted call ranked by another column, distinct ranks,
\* three rows, that returned a non-zero coefficient.
C2_Witness ==
    /\ Done /\ Valid /\ call.weight = None /\ DistinctRanks
    /\ N = 3 /\ ~ascending /\ call.ranking = "pred"
    /\ IsFin(result) /\ result[2] # 0

\* C3: with rows whose outcome total or weight total is zero the call does
\* not return a value.
C3_ZeroTotalNeverReturns ==
    (Valid /\ N > 0 /\ (OutcomeTotal = 0 \/ WeightTotal = 0))
        => ~(Done /\ result # NoCell)

\* C4: with zero rows the call does not return a value.
C4_EmptyNeverReturns ==
    (Valid /\ N = 0) => ~(Done /\ result # NoCell)

RankedByOutcomeAscending ==
    /\ ascending
    /\ LocalRanking(target, call.ranking) = target
    /\ \A i \in 1..N : OutcomeOf(i) >= 0
    /\ OutcomeTotal > 0

C6_OrderIndependent ==
    (Done /\ Valid /\ DistinctRanks)
        => \A p \in Perms(N) :
              \A o \in SortOrders([i \in 1..N |-> RankOf(p[i])], ascending) :
                 GiniOf(Permuted(data, p), o, dtype, target, call.weight,
                        ascending) = result

\* A weighted call on three rows of distinct ranks, not in rank order, with
\* differing outcomes and weights, that returned a non-zero coefficient.
C6_Witness ==
    /\ Done /\ Valid /\ DistinctRanks /\ N = 3
    /\ call.ranking = "pred" /\ call.weight = "expo"
    /\ order # Identity(3)
    /\ \E i, j \in 1..3 : OutcomeOf(i) # OutcomeOf(j)
    /\ \E i, j \in 1..3 : WeightOf(i) # WeightOf(j)
    /\ IsFin(result) /\ result[2] # 0

AllOutcomesEqual ==
    /\ N >= 1
    /\ OutcomeOf(1) # 0
    /\ \A i \in 1..N : OutcomeOf(i) = OutcomeOf(1)

C8_DataNeverMutated == [][data' = data]_vars

\* A finished call that sorted three rows into another order, synthesized
\* the weight column, added the derived columns and plotted.
C8_Witness ==
    /\ Done /\ Valid /\ call.weight = None /\ plot
    /\ N = 3 /\ order # Identity(3)
    /\ "lift" \in DOMAIN sorted_data
    /\ "weight" \in DOMAIN sorted_data
    /\ Len(plotted["cumul_total"]) = 3

\* The order a stable sort gives: monotone in the rank, rows of equal rank in
\* their input order.
StableOrder ==
    CHOOSE o \in SortOrders([i \in 1..N |-> RankOf(i)], ascending) :
        \A i, j \in 1..N :
            (i < j /\ RankOf(o[i]) = RankOf(o[j])) => o[i] < o[j]

\* C9: the sorted table is the stable sort of the input by rank: as many
\* rows, monotone in the direction asked for, rows of equal rank in their
\* input order; hence the coefficient is the one of the stable order.
C9_SortIsStable ==
    (Valid /\ pc # "start")
        => /\ Len(order) = N
           /\ Monotone([i \in 1..N |-> RankOf(i)], order, ascending)
           /\ pc = "rescale"
                 => sorted_data
                       = SortedData(data, StableOrder, target, call.weight)
           /\ Done
                 => result = GiniOf(data, StableOrder, dtype, target,
                                    call.weight, ascending)

WithOnes(d) ==
    [c \in DOMAIN d \cup {"ones"} |->
        IF c = "ones" THEN [i \in 1..NRows(d) |-> 1] ELSE d[c]]

\* C10: with the weight omitted the call returns what it returns for the same
\* rows with an extra weight column of 1s, whatever the columns are named.
C10_OmittedWeightIsOnes ==
    (Done /\ Valid /\ call.weight = None)
        => result = GiniOf(WithOnes(data), order, dtype, target, "ones",
                           ascending)

====
